---- MODULE Spec2Model ----
(***************************************************************************)
(* The report orchestrator client of CurricAlign: the useOrchestrator hook *)
(* (job init, PDF upload, event stream, status polling, cancel, automatic  *)
(* download) driven by the report view that renders it.                    *)
(*                                                                         *)
(* The repository holds two copies of the hook, which differ in the order  *)
(* of the requests of startFromPdf and in the status table:                *)
(*   "frontend"  frontend/src/components/report/useOrchestrator.ts         *)
(*   "root"      src/components/report/useOrchestrator.ts                  *)
(* The variable `variant` says which copy is running.                      *)
(*                                                                         *)
(* One step of the model is one task of the browser's event loop: a click  *)
(* handler, a timer callback, an EventSource callback, or the continuation *)
(* of an async function after an awaited request has settled, together     *)
(* with the re-render and the effect that the task's state updates cause.  *)
(*                                                                         *)
(* The dashboard's version watcher (lib/useVersionWatcher.ts) is modelled  *)
(* next to the hook, in the variable `watcher`, and the version-gated      *)
(* cache (lib/dataCache.ts) in `localStorage`, `now` and `cacheCall`; the  *)
(* other tabs of the origin, which share localStorage and the cache's      *)
(* BroadcastChannel, in `tabs`.                                            *)
(*                                                                         *)
(* The automatic download is followed at two grains: as one step per       *)
(* attempt (DownloadEnd), and probe by probe (ProbeHead, ProbeGet,         *)
(* ProbeSleep, DownloadReturn).                                            *)
(***************************************************************************)
EXTENDS Integers, Sequences, FiniteSets, TLC

(* ------------------------------ bounds --------------------------------- *)

\* Date.now() advances up to this many units
MaxClock == 2
\* runs started between two page loads
MaxRuns == 2
\* es.onerror is taken only while the run has fewer live poll loops than this
MaxErrorLoops == 1
\* other tabs of the same origin that can be open
MaxTabs == 2
\* invalidate messages that a tab can have waiting
MaxPending == 2

(* ----------------------------- constants ------------------------------- *)

Variants == {"frontend", "root"}

NoJob == 0
NoUrl == "null"
NoFn == ""

INITIAL_STEPS ==
  << [id |-> "1", name |-> "Scraping Jobs",
      fn |-> "scrape_jobs_from_google_jobs", status |-> "pending"],
     [id |-> "2", name |-> "Extracting Job Skills",
      fn |-> "extract_skills_from_jobs", status |-> "pending"],
     [id |-> "3", name |-> "Extracting Course Skills",
      fn |-> "extract_subject_skills_from_supabase", status |-> "pending"],
     [id |-> "4", name |-> "Retraining ML Models",
      fn |-> "retrain_ml_models", status |-> "pending"],
     [id |-> "5", name |-> "Generating Course Alignment Scores",
      fn |-> "compute_subject_scores_and_save", status |-> "pending"],
     [id |-> "6", name |-> "Final Validation",
      fn |-> "final_checking", status |-> "pending"],
     [id |-> "7", name |-> "Creating PDF Report",
      fn |-> "generate_pdf_report", status |-> "pending"] >>

StepIdx == DOMAIN INITIAL_STEPS

StepFns == { INITIAL_STEPS[i].fn : i \in StepIdx }

StepStatus == {"pending", "in-progress", "completed", "error"}

FINAL_FN == "generate_pdf_report"

(* ------------------------- inputs of the model ------------------------- *)

\* function names that stream messages and poll responses carry: two step
\* keys and one name that is no step key
WireFns == {"scrape_jobs_from_google_jobs", FINAL_FN, "compute_trending_jobs"}

\* a status string that names a property every object literal inherits
ProtoKeys == {"constructor"}

\* what the lookup of such a key in an object literal yields
ProtoValue == "function Object()"

\* status strings of stream messages ("" = field absent, "queued" = a value
\* outside every table)
StreamStatuses == {"", "started", "completed", "error", "queued"} \cup ProtoKeys

\* status strings of poll responses
PollStatuses ==
  {"", "pending", "in_progress", "completed", "error", "queued"} \cup ProtoKeys

WireUrls == {"", "/static/report.pdf"}

\* data = "" is a keep-alive (empty or non-JSON); type = "error" is the
\* explicit pipeline error event
ErrorPayloads ==
  [data : {"json"}, type : {"error"}, failed_at : {NoFn, FINAL_FN, "compute_trending_jobs"},
   function : {NoFn, "scrape_jobs_from_google_jobs"}, status : {""}, reportUrl : {""}]

StatusPayloads ==
  [data : {"json"}, type : {""}, failed_at : {NoFn},
   function : WireFns \cup {NoFn}, status : StreamStatuses, reportUrl : {""}]
  \cup
  [data : {"json"}, type : {""}, failed_at : {NoFn},
   function : {NoFn, FINAL_FN}, status : {"", "completed"}, reportUrl : WireUrls \ {""}]

KeepAlive ==
  [data |-> "", type |-> "", failed_at |-> NoFn, function |-> NoFn,
   status |-> "", reportUrl |-> ""]

Payloads == ErrorPayloads \cup StatusPayloads \cup {KeepAlive}

\* ok = FALSE is a network error or a non-OK answer of the status endpoint
PollResponses ==
  { [ok |-> TRUE, reportUrl |-> u,
     steps |-> ("scrape_jobs_from_google_jobs" :> a @@ FINAL_FN :> b)] :
       u \in WireUrls, a \in {"", "in_progress", "queued"}, b \in PollStatuses }
  \cup
  { [ok |-> FALSE, reportUrl |-> "",
     steps |-> ("scrape_jobs_from_google_jobs" :> "" @@ FINAL_FN :> "")] }

\* the inputs of SpecRuns: the final step only
RunsPayloads ==
  { p \in Payloads :
      /\ p.data = "json"
      /\ p.function = FINAL_FN
      /\ \/ p.type = "error" /\ p.failed_at = NoFn
         \/ p.type = "" /\ p.status \in {"started", "error"}
         \/ p.type = "" /\ p.status = "completed" /\ p.reportUrl # "" }

RunsPollResponses ==
  { resp \in PollResponses :
      /\ resp.steps["scrape_jobs_from_google_jobs"] = ""
      /\ \/ ~resp.ok
         \/ resp.steps[FINAL_FN] = "in_progress"
         \/ resp.steps[FINAL_FN] = "completed" /\ resp.reportUrl # "" }

(* ------------------------ the version watcher's inputs ----------------- *)

\* a lastChanged that is null
NoIso == "null"

\* no ETag (undefined ref, absent header)
NoEtag == "undefined"

\* lastChanged strings: not a date, a date before 1970, one instant written
\* in two ways, and a later instant
IsoValues ==
  { "not-a-date", "1969-12-31T00:00:00Z", "2024-01-01T00:00:00Z",
    "2024-01-01T00:00:00.000Z", "2024-06-01T00:00:00Z" }

\* lastChanged of a version body: "" when the body has none
BodyValues == IsoValues \cup {""}

\* ETag header of a version response
EtagValues == {NoEtag, "v1"}

\* the pollMs argument
PollMsValues == {20000, 150000}

\* new Date(iso).getTime(), in days from 1970-01-01; nan for an invalid date
DateGetTime(iso) ==
  CASE iso = "1969-12-31T00:00:00Z"     -> [nan |-> FALSE, t |-> -1]
    [] iso = "2024-01-01T00:00:00Z"     -> [nan |-> FALSE, t |-> 19723]
    [] iso = "2024-01-01T00:00:00.000Z" -> [nan |-> FALSE, t |-> 19723]
    [] iso = "2024-06-01T00:00:00Z"     -> [nan |-> FALSE, t |-> 19875]
    [] OTHER                            -> [nan |-> TRUE, t |-> 0]

\* parseIsoMs
parseIsoMs(iso) ==
  IF iso = NoIso \/ iso = "" THEN 0
  ELSE IF DateGetTime(iso).nan THEN 0 ELSE DateGetTime(iso).t

\* the watcher before its component is mounted
UnmountedWatcher ==
  [phase |-> "unmounted", pollMs |-> 0, lastChanged |-> NoIso,
   lastChangedRef |-> NoIso, etagRef |-> NoEtag, timerRef |-> FALSE,
   timerDelay |-> 0, nextDelayRef |-> 0, inFlight |-> "none",
   conditional |-> FALSE, cancelled |-> FALSE, hidden |-> FALSE]

(* ----------------------------- the cache's inputs ---------------------- *)

\* lastChanged of a version body, as the cache sees it
CacheVersions == {"2024-01-01T00:00:00Z", "2024-06-01T00:00:00Z"}

\* bodies of dataUrl
DataValues == {"rows-a", "rows-b"}

\* opts.allowStaleOnVersionError
AllowStaleValues == {"undefined", "true", "false"}

\* opts.ttlMs, in units of the clock
TtlValues == {0, 1}

\* readCache when nothing is stored under the key (null)
NoEntry ==
  [present |-> FALSE, data |-> "", lastChanged |-> "", cachedAt |-> 0, etag |-> NoEtag]

\* a CacheEntry
Entry(data, lastChanged, cachedAt, etag) ==
  [present |-> TRUE, data |-> data, lastChanged |-> lastChanged,
   cachedAt |-> cachedAt, etag |-> etag]

\* new Date().toISOString() at time t
NowIso(t) == "now+" \o ToString(t)

\* no call of getWithVersionCache yet
NoCall ==
  [pc |-> "idle", cached |-> NoEntry, allowStale |-> "undefined", ttlMs |-> 0,
   conditional |-> FALSE, aborted |-> FALSE, vEtag |-> NoEtag, lastChanged |-> "",
   version |-> "", dataReqs |-> 0, writes |-> 0, served |-> "",
   data |-> "", retLastChanged |-> ""]

\* no other tab is open, and setCache has not been called
NoTabs == [pending |-> << >>, written |-> NoEntry]

(* ------------------------------- state --------------------------------- *)

VARIABLES
  variant,             \* which copy of the hook runs
  steps,               \* useState: the 7 ProcessSteps
  isProcessing,        \* useState
  isComplete,          \* useState
  reportUrl,           \* useState: NoUrl or a URL
  jobId,               \* useState: NoJob or the id minted by init
  parsedRows,          \* useState of the root copy: "null" or "rows"
  esRef,               \* useRef: NoJob (null) or the job whose EventSource is live
  openedRef,           \* useRef
  cancelledRef,        \* useRef
  downloadStartedRef,  \* useRef
  runs,                \* one record per call of startFromPdf/startFromStored
  polls,               \* per run: status requests in flight, poll timers pending
  cancelReqs,          \* job ids that a backend cancel request was sent for
  downloads,           \* auto-download attempts in progress
  attempts,            \* the attempts in progress, oldest first: where each stands
  history,             \* where asked for: the run each attempt in progress was
                       \* started in, and per run the files its attempts saved
  watcher,             \* useVersionWatcher: its state, refs and effect closure
  localStorage,        \* the entry stored under the cache key
  now,                 \* Date.now(), in units of the clock
  cacheCall,           \* the call of getWithVersionCache that is under way
  tabs                 \* the other tabs of the origin: the invalidate messages each
                       \* has not processed yet; what this tab last wrote by setCache

vars == << variant, steps, isProcessing, isComplete, reportUrl, jobId, parsedRows,
           esRef, openedRef, cancelledRef, downloadStartedRef, runs, polls,
           cancelReqs, downloads, attempts, history, watcher, localStorage, now,
           cacheCall, tabs >>

\* the state of the dashboard's library code, which the hook never touches
libVars == << watcher, localStorage, now, cacheCall, tabs >>

\* the state of the cache
cacheVars == << localStorage, now, cacheCall, tabs >>

\* the state of the hook
hookVars == << variant, steps, isProcessing, isComplete, reportUrl, jobId, parsedRows,
               esRef, openedRef, cancelledRef, downloadStartedRef, runs, polls,
               cancelReqs, downloads, attempts, history >>

RunIds == 1..MaxRuns

IdleRun ==
  [pc |-> "idle", kind |-> "", seenComplete |-> FALSE, log |-> << >>,
   grace |-> FALSE, failedAt |-> "", startReq |-> {}]

\* the steps with every status pending
PendingSteps == [i \in StepIdx |-> [INITIAL_STEPS[i] EXCEPT !.status = "pending"]]

(* ------------------------- the status tables --------------------------- *)

\* (variation) the table without its "completed" row
StreamMapStatusNoCompleted(v, st, prev) ==
  CASE st = "started" -> "in-progress"
    [] st = "error"   -> "error"
    [] OTHER          -> prev

\* status that a stream message (function, st) gives a step whose status is prev
StreamMapStatus(v, st, prev) ==
  IF v = "frontend"
  THEN CASE st = "started"   -> "in-progress"
         [] st = "completed" -> "completed"
         [] st = "error"     -> "error"
         [] st \in ProtoKeys -> ProtoValue
         [] OTHER            -> prev
  ELSE CASE st = "in_progress" -> "in-progress"
         [] st = "pending"     -> "pending"
         [] st = "started"     -> "in-progress"
         [] st = "completed"   -> "completed"
         [] st = "error"       -> "error"
         [] OTHER              -> "pending"

\* status that a poll entry raw gives a step whose status is prev
PollMapStatus(v, raw, prev) ==
  IF v = "frontend"
  THEN CASE raw = "pending"     -> "pending"
         [] raw = "in_progress" -> "in-progress"
         [] raw = "completed"   -> "completed"
         [] raw = "error"       -> "error"
         [] raw \in ProtoKeys   -> ProtoValue
         [] OTHER               -> prev
  ELSE CASE raw = "in_progress" -> "in-progress"
         [] raw = "pending"     -> "pending"
         [] raw = "started"     -> "in-progress"
         [] raw = "completed"   -> "completed"
         [] raw = "error"       -> "error"
         [] OTHER               -> "pending"

\* (variation) function is preferred to failed_at
FailedFnFunctionFirst(p) == IF p.function # NoFn THEN p.function ELSE p.failed_at

\* the step named by an explicit error event: failed_at, else function
FailedFn(p) == IF p.failed_at # NoFn THEN p.failed_at ELSE p.function

\* setSteps of the error event
MarkError(prev, failedFn) ==
  [i \in StepIdx |->
     IF prev[i].fn = failedFn THEN [prev[i] EXCEPT !.status = "error"] ELSE prev[i]]

\* setSteps of a (function, status) message
ApplyStream(v, prev, fn, st) ==
  [i \in StepIdx |->
     IF prev[i].fn # fn THEN prev[i]
     ELSE [prev[i] EXCEPT !.status = StreamMapStatus(v, st, prev[i].status)]]

\* data.steps[fn] of a poll response ("" when absent)
RawOf(dsteps, fn) == IF fn \in DOMAIN dsteps THEN dsteps[fn] ELSE ""

\* (variation) a poll response never takes back a completed or failed step
ApplyPollMonotone(v, prev, dsteps) ==
  [i \in StepIdx |->
     IF RawOf(dsteps, prev[i].fn) # "" /\ prev[i].status \notin {"completed", "error"}
     THEN [prev[i] EXCEPT
             !.status = PollMapStatus(v, RawOf(dsteps, prev[i].fn), prev[i].status)]
     ELSE prev[i]]

\* setSteps of a poll response
ApplyPoll(v, prev, dsteps) ==
  [i \in StepIdx |->
     IF RawOf(dsteps, prev[i].fn) # ""
     THEN [prev[i] EXCEPT
             !.status = PollMapStatus(v, RawOf(dsteps, prev[i].fn), prev[i].status)]
     ELSE prev[i]]

StreamCompletes(p) == p.function = FINAL_FN /\ p.status = "completed"

PollDone(resp) == resp.ok /\ RawOf(resp.steps, FINAL_FN) = "completed"

(* --------------------------- shared fragments -------------------------- *)

\* (variation) the handle is kept
closeStreamKeepsHandle == esRef' = esRef /\ openedRef' = FALSE

closeStream == esRef' = NoJob /\ openedRef' = FALSE

\* (variation) pollStatus that never sends a request
pollStatusNoRequest(r, pl) == pl

\* pollStatus(id) up to its first await: returns at once when the run was
\* cancelled or when the render that created this closure had isComplete
\* set; otherwise one more status request is in flight
pollStatus(r, pl) ==
  IF cancelledRef \/ runs[r].seenComplete
  THEN pl
  ELSE [pl EXCEPT ![r].req = @ + 1]

\* no history is kept
NoHistory == [on |-> FALSE, runOf |-> << >>, saved |-> [r \in 0..MaxRuns |-> 0]]

\* the history is kept; nothing has happened yet
EmptyHistory == [NoHistory EXCEPT !.on = TRUE]

\* the run that was started last (0 before the first)
CurrentRun(rs) ==
  IF \A r \in RunIds : rs[r].pc = "idle" THEN 0
  ELSE CHOOSE r \in RunIds : rs[r].pc # "idle" /\ \A q \in RunIds : q > r => rs[q].pc = "idle"

\* an attempt that has just entered waitUntilReachable: round 0, HEAD sent
NewAttempt(url) == [url |-> url, i |-> 0, pc |-> "head"]

\* a sequence without its k-th element
RemoveAt(seq, k) == [j \in 1..(Len(seq) - 1) |-> IF j < k THEN seq[j] ELSE seq[j + 1]]

\* the history with an attempt started in run r
Started(h, r) == IF h.on THEN [h EXCEPT !.runOf = Append(@, r)] ELSE h

\* the history with the k-th attempt over; ok: a.click() has saved the file
Ended(h, k, ok) ==
  IF ~h.on THEN h
  ELSE [h EXCEPT !.runOf = RemoveAt(@, k),
                 !.saved[h.runOf[k]] = IF ok THEN @ + 1 ELSE @]

\* the auto-download effect, run after the render that the step causes;
\* ds is downloadStartedRef as the step's own handler leaves it
DownloadEffect(ds) ==
  IF << reportUrl', jobId' >> # << reportUrl, jobId >> /\ reportUrl' # NoUrl /\ ~ds
  THEN /\ downloadStartedRef' = TRUE /\ downloads' = downloads + 1
       /\ attempts' = Append(attempts, NewAttempt(reportUrl'))
       /\ history' = Started(history, CurrentRun(runs'))
  ELSE /\ downloadStartedRef' = ds /\ downloads' = downloads /\ attempts' = attempts
       /\ history' = history

\* request issued first by a run
FirstCall(v, kind) == IF v = "root" /\ kind = "pdf" THEN "upload" ELSE "init"

\* request issued once openEventStream has resolved
CallAfterStream(v, kind) == IF v = "frontend" /\ kind = "pdf" THEN "upload" ELSE "start"

\* request issued once the upload has succeeded
CallAfterUpload(v) == IF v = "root" THEN "init" ELSE "start"

\* flags.name ?? default
FlagOr(flags, name, default) == IF name \in DOMAIN flags THEN flags[name] ELSE default

\* the flags object both start functions pass to startOrchestratorPipeline
RunFlags ==
  [scrapeEnabled |-> TRUE, extractEnabled |-> TRUE, generatePdf |-> TRUE,
   retrainModels |-> FALSE]

\* the source argument of startOrchestratorPipeline
StartSource(v, kind) == IF v = "root" THEN "stored" ELSE kind

\* body of the start-pipeline request
StartPayload(v, kind) ==
  [source        |-> StartSource(v, kind),
   scrapeEnabled |-> FlagOr(RunFlags, "scrapeEnabled", TRUE),
   extractEnabled |-> FlagOr(RunFlags, "extractEnabled", TRUE),
   retrainModels |-> FlagOr(RunFlags, "retrainModels", FALSE),
   generatePdf   |-> FlagOr(RunFlags, "generatePdf", TRUE)]

\* the run issues a request; startReq keeps the body of a start-pipeline request
Issue(run, call) ==
  [run EXCEPT !.pc = call, !.log = Append(@, call),
              !.startReq = IF call = "start"
                           THEN {StartPayload(variant, run.kind)} ELSE @]

\* (variation) the catch block leaves isProcessing alone
CatchKeepsProcessing(r, call) ==
  /\ closeStream
  /\ runs' = [runs EXCEPT ![r].pc = "failed", ![r].failedAt = call]
  /\ UNCHANGED << libVars, variant, steps, isProcessing, isComplete, reportUrl, jobId, parsedRows,
                  cancelledRef, polls, cancelReqs >>
  /\ DownloadEffect(downloadStartedRef)

\* the catch block of startFromPdf / startFromStored
Catch(r, call) ==
  /\ isProcessing' = FALSE
  /\ closeStream
  /\ runs' = [runs EXCEPT ![r].pc = "failed", ![r].failedAt = call]
  /\ UNCHANGED << libVars, variant, steps, isComplete, reportUrl, jobId, parsedRows,
                  cancelledRef, polls, cancelReqs >>
  /\ DownloadEffect(downloadStartedRef)

\* the caller's continuation after openEventStream has resolved
Resume(r) == Issue([runs[r] EXCEPT !.grace = FALSE], CallAfterStream(variant, runs[r].kind))

(* ------------------------------- Init ---------------------------------- *)

InitWith(h) ==
  /\ variant \in Variants
  /\ steps = INITIAL_STEPS
  /\ isProcessing = FALSE
  /\ isComplete = FALSE
  /\ reportUrl = NoUrl
  /\ jobId = NoJob
  /\ parsedRows = "null"
  /\ esRef = NoJob
  /\ openedRef = FALSE
  /\ cancelledRef = FALSE
  /\ downloadStartedRef = FALSE
  /\ runs = [r \in RunIds |-> IdleRun]
  /\ polls = [r \in RunIds |-> [req |-> 0, timer |-> 0]]
  /\ cancelReqs = {}
  /\ downloads = 0
  /\ attempts = << >>
  /\ history = h
  /\ watcher = UnmountedWatcher
  /\ localStorage = NoEntry
  /\ now = 0
  /\ cacheCall = NoCall
  /\ tabs = NoTabs

\* the state after construction
Init == InitWith(NoHistory)

\* the same, with the history of the downloads kept
InitHistory == InitWith(EmptyHistory)

(* ------------------------------ actions -------------------------------- *)

\* (variation) resetUI without the reset of the two refs
resetUIKeepsRefs ==
  /\ isProcessing' = TRUE
  /\ isComplete' = FALSE
  /\ reportUrl' = NoUrl
  /\ parsedRows' = "null"
  /\ steps' = PendingSteps
  /\ cancelledRef' = cancelledRef
  /\ DownloadEffect(downloadStartedRef)

\* resetUI
resetUI ==
  /\ isProcessing' = TRUE
  /\ isComplete' = FALSE
  /\ reportUrl' = NoUrl
  /\ parsedRows' = "null"
  /\ steps' = PendingSteps
  /\ cancelledRef' = FALSE
  /\ DownloadEffect(FALSE)

\* startFromPdf(file) / startFromStored() up to the first await.  The view
\* offers both only while neither isProcessing nor isComplete is set.
\* r is the number of the run since the page was loaded.
Start(r, kind) ==
  /\ ~isProcessing /\ ~isComplete
  /\ runs[r].pc = "idle"
  /\ \A q \in RunIds : q < r => runs[q].pc # "idle"
  /\ runs' = [runs EXCEPT ![r] =
                Issue([IdleRun EXCEPT !.kind = kind, !.seenComplete = isComplete],
                      FirstCall(variant, kind))]
  /\ UNCHANGED << libVars, variant, jobId, esRef, openedRef, polls, cancelReqs >>
  /\ resetUI

\* uploadPdf settles
UploadReturn(r, ok) ==
  /\ runs[r].pc = "upload"
  /\ IF ok
     THEN /\ runs' = [runs EXCEPT ![r] = Issue(@, CallAfterUpload(variant))]
          /\ parsedRows' = IF variant = "root" THEN "rows" ELSE parsedRows
          /\ UNCHANGED << libVars, variant, steps, isProcessing, isComplete, reportUrl, jobId,
                          esRef, openedRef, cancelledRef, polls, cancelReqs >>
          /\ DownloadEffect(downloadStartedRef)
     ELSE Catch(r, "upload")

\* initOrchestratorJob settles; on success the caller goes on into
\* openEventStream, which closes the current stream and opens a new one
InitReturn(r, outcome) ==
  /\ runs[r].pc = "init"
  /\ IF outcome = "jobId"
     THEN /\ jobId' = r
          /\ esRef' = r
          /\ openedRef' = FALSE
          /\ runs' = [runs EXCEPT ![r] = [Issue(@, "events") EXCEPT !.pc = "grace", !.grace = TRUE]]
          /\ UNCHANGED << libVars, variant, steps, isProcessing, isComplete, reportUrl, parsedRows,
                          cancelledRef, polls, cancelReqs >>
          /\ DownloadEffect(downloadStartedRef)
     ELSE Catch(r, "init")

\* es.onopen
EsOpen(r) ==
  /\ esRef = r /\ ~openedRef
  /\ openedRef' = TRUE
  /\ runs' = [runs EXCEPT ![r] = IF @.pc = "grace" THEN Resume(r) ELSE [@ EXCEPT !.grace = FALSE]]
  /\ UNCHANGED << libVars, variant, steps, isProcessing, isComplete, reportUrl, jobId, parsedRows,
                  esRef, cancelledRef, polls, cancelReqs >>
  /\ DownloadEffect(downloadStartedRef)

\* (variation) the grace timer tests the flag the wrong way round
GraceTimerInverted(r) ==
  /\ runs[r].grace
  /\ runs' = [runs EXCEPT ![r] = IF openedRef /\ @.pc = "grace" THEN Resume(r)
                                 ELSE [@ EXCEPT !.grace = FALSE]]
  /\ UNCHANGED << libVars, variant, steps, isProcessing, isComplete, reportUrl, jobId, parsedRows,
                  esRef, openedRef, cancelledRef, polls, cancelReqs >>
  /\ DownloadEffect(downloadStartedRef)

\* the grace timer of openEventStream fires
GraceTimer(r) ==
  /\ runs[r].grace
  /\ runs' = [runs EXCEPT ![r] = IF ~openedRef /\ @.pc = "grace" THEN Resume(r)
                                 ELSE [@ EXCEPT !.grace = FALSE]]
  /\ UNCHANGED << libVars, variant, steps, isProcessing, isComplete, reportUrl, jobId, parsedRows,
                  esRef, openedRef, cancelledRef, polls, cancelReqs >>
  /\ DownloadEffect(downloadStartedRef)

\* startOrchestratorPipeline settles; on success the caller calls pollStatus
StartReturn(r, ok) ==
  /\ runs[r].pc = "start"
  /\ IF ok
     THEN /\ runs' = [runs EXCEPT ![r].pc = "done"]
          /\ polls' = pollStatus(r, polls)
          /\ UNCHANGED << libVars, variant, steps, isProcessing, isComplete, reportUrl, jobId,
                          parsedRows, esRef, openedRef, cancelledRef, cancelReqs >>
          /\ DownloadEffect(downloadStartedRef)
     ELSE Catch(r, "start")

\* (variation) a stream error that also ends the processing
EsErrorStopsProcessing(r) ==
  /\ esRef = r
  /\ polls[r].req + polls[r].timer < MaxErrorLoops
  /\ polls' = pollStatus(r, polls)
  /\ isProcessing' = FALSE
  /\ UNCHANGED << libVars, variant, steps, isComplete, reportUrl, jobId, parsedRows,
                  esRef, openedRef, cancelledRef, runs, cancelReqs >>
  /\ DownloadEffect(downloadStartedRef)

\* es.onerror: pollStatus(id) unless the run was cancelled
EsError(r) ==
  /\ esRef = r
  /\ polls[r].req + polls[r].timer < MaxErrorLoops
  /\ polls' = pollStatus(r, polls)
  /\ UNCHANGED << libVars, variant, steps, isProcessing, isComplete, reportUrl, jobId, parsedRows,
                  esRef, openedRef, cancelledRef, runs, cancelReqs >>
  /\ DownloadEffect(downloadStartedRef)

\* es.onmessage
StreamMessage(r, p) ==
  /\ esRef = r /\ openedRef
  /\ UNCHANGED << libVars, variant, jobId, parsedRows, cancelledRef, cancelReqs >>
  /\ IF p.data = ""
     THEN UNCHANGED << steps, isProcessing, isComplete, reportUrl, esRef, openedRef,
                       runs, polls, downloadStartedRef, downloads, attempts, history >>
     ELSE IF p.type = "error"
     THEN /\ steps' = IF FailedFn(p) # NoFn THEN MarkError(steps, FailedFn(p)) ELSE steps
          /\ isProcessing' = FALSE
          /\ closeStream
          /\ polls' = pollStatus(r, polls)
          /\ UNCHANGED << isComplete, reportUrl, runs >>
          /\ DownloadEffect(downloadStartedRef)
     ELSE /\ reportUrl' = IF p.reportUrl # "" THEN p.reportUrl ELSE reportUrl
          /\ steps' = IF p.function # NoFn /\ p.status # ""
                      THEN ApplyStream(variant, steps, p.function, p.status)
                      ELSE steps
          /\ IF StreamCompletes(p)
             THEN /\ isComplete' = TRUE
                  /\ isProcessing' = FALSE
                  /\ closeStream
             ELSE /\ isProcessing' = IF p.status = "error" THEN FALSE ELSE isProcessing
                  /\ UNCHANGED << isComplete, esRef, openedRef >>
          /\ UNCHANGED << runs, polls >>
          /\ DownloadEffect(downloadStartedRef)

\* (variation) a poll response that completes the run without clearing
\* isProcessing
PollResponseKeepsProcessing(r, resp) ==
  /\ polls[r].req > 0
  /\ UNCHANGED << libVars, variant, jobId, parsedRows, esRef, openedRef, cancelledRef, cancelReqs >>
  /\ reportUrl' = IF resp.ok /\ resp.reportUrl # "" THEN resp.reportUrl ELSE reportUrl
  /\ steps' = IF resp.ok THEN ApplyPoll(variant, steps, resp.steps) ELSE steps
  /\ IF PollDone(resp)
     THEN /\ isComplete' = TRUE
          /\ isProcessing' = isProcessing
          /\ polls' = [polls EXCEPT ![r].req = @ - 1]
     ELSE /\ polls' = [polls EXCEPT ![r].req = @ - 1, ![r].timer = @ + 1]
          /\ UNCHANGED << isComplete, isProcessing >>
  /\ UNCHANGED runs
  /\ DownloadEffect(downloadStartedRef)

\* the status request of a poll loop settles
PollResponse(r, resp) ==
  /\ polls[r].req > 0
  /\ UNCHANGED << libVars, variant, jobId, parsedRows, esRef, openedRef, cancelledRef, cancelReqs >>
  /\ reportUrl' = IF resp.ok /\ resp.reportUrl # "" THEN resp.reportUrl ELSE reportUrl
  /\ steps' = IF resp.ok THEN ApplyPoll(variant, steps, resp.steps) ELSE steps
  /\ IF PollDone(resp)
     THEN /\ isComplete' = TRUE
          /\ isProcessing' = FALSE
          /\ polls' = [polls EXCEPT ![r].req = @ - 1]
     ELSE /\ polls' = [polls EXCEPT ![r].req = @ - 1, ![r].timer = @ + 1]
          /\ UNCHANGED << isComplete, isProcessing >>
  /\ UNCHANGED runs
  /\ DownloadEffect(downloadStartedRef)

\* the 1000 ms timer of a poll loop fires
PollTimer(r) ==
  /\ polls[r].timer > 0
  /\ polls' = pollStatus(r, [polls EXCEPT ![r].timer = @ - 1])
  /\ UNCHANGED << libVars, variant, steps, isProcessing, isComplete, reportUrl, jobId, parsedRows,
                  esRef, openedRef, cancelledRef, runs, cancelReqs >>
  /\ DownloadEffect(downloadStartedRef)

\* cancel().  The view offers it while isProcessing is set.  The answer to
\* the backend cancel request is only logged.
Cancel ==
  /\ isProcessing
  /\ cancelledRef' = TRUE
  /\ closeStream
  /\ isProcessing' = FALSE
  /\ steps' = PendingSteps
  /\ cancelReqs' = IF jobId # NoJob THEN cancelReqs \cup {jobId} ELSE cancelReqs
  /\ UNCHANGED << libVars, variant, isComplete, reportUrl, jobId, parsedRows, runs, polls >>
  /\ DownloadEffect(downloadStartedRef)

\* an auto-download attempt ends, whatever its probes were answered
DownloadEnd(ok) ==
  /\ downloads > 0
  /\ downloads' = downloads - 1
  /\ \E k \in DOMAIN attempts :
       /\ attempts' = RemoveAt(attempts, k)
       /\ history' = Ended(history, k, ok)
  /\ downloadStartedRef' = IF ok THEN downloadStartedRef ELSE FALSE
  /\ UNCHANGED << libVars, variant, steps, isProcessing, isComplete, reportUrl, jobId, parsedRows,
                  esRef, openedRef, cancelledRef, runs, polls, cancelReqs >>

\* onReset of the completion card: location.reload()
Reload ==
  /\ isComplete
  /\ steps' = INITIAL_STEPS
  /\ isProcessing' = FALSE
  /\ isComplete' = FALSE
  /\ reportUrl' = NoUrl
  /\ jobId' = NoJob
  /\ parsedRows' = "null"
  /\ esRef' = NoJob
  /\ openedRef' = FALSE
  /\ cancelledRef' = FALSE
  /\ downloadStartedRef' = FALSE
  /\ runs' = [r \in RunIds |-> IdleRun]
  /\ polls' = [r \in RunIds |-> [req |-> 0, timer |-> 0]]
  /\ cancelReqs' = {}
  /\ downloads' = 0
  /\ attempts' = << >>
  /\ history' = [NoHistory EXCEPT !.on = history.on]
  /\ UNCHANGED << libVars, variant >>

\* one run per page load; every input
Next ==
  \/ \E kind \in {"pdf", "stored"} : Start(1, kind)
  \/ \E r \in RunIds, ok \in BOOLEAN : UploadReturn(r, ok)
  \/ \E r \in RunIds, outcome \in {"jobId", "noJobId", "failed"} : InitReturn(r, outcome)
  \/ \E r \in RunIds : EsOpen(r)
  \/ \E r \in RunIds : GraceTimer(r)
  \/ \E r \in RunIds, ok \in BOOLEAN : StartReturn(r, ok)
  \/ \E r \in RunIds : EsError(r)
  \/ \E r \in RunIds, p \in Payloads : StreamMessage(r, p)
  \/ \E r \in RunIds, resp \in PollResponses : PollResponse(r, resp)
  \/ \E r \in RunIds : PollTimer(r)
  \/ Cancel
  \/ \E ok \in BOOLEAN : DownloadEnd(ok)
  \/ Reload

Spec == Init /\ [][Next]_vars

\* the runs of a page load overlap; inputs about the final step only
NextRuns ==
  \/ \E r \in RunIds, kind \in {"pdf", "stored"} : Start(r, kind)
  \/ \E r \in RunIds, ok \in BOOLEAN : UploadReturn(r, ok)
  \/ \E r \in RunIds, outcome \in {"jobId", "failed"} : InitReturn(r, outcome)
  \/ \E r \in RunIds : EsOpen(r)
  \/ \E r \in RunIds : GraceTimer(r)
  \/ \E r \in RunIds, ok \in BOOLEAN : StartReturn(r, ok)
  \/ \E r \in RunIds : EsError(r)
  \/ \E r \in RunIds, p \in RunsPayloads : StreamMessage(r, p)
  \/ \E r \in RunIds, resp \in RunsPollResponses : PollResponse(r, resp)
  \/ \E r \in RunIds : PollTimer(r)
  \/ Cancel
  \/ \E ok \in BOOLEAN : DownloadEnd(ok)
  \/ Reload

SpecRuns == Init /\ [][NextRuns]_vars

\* run q has wound down: its async function has returned, its grace timer
\* and its poll loops are gone and the live stream is not its own
Quiet(q) ==
  /\ runs[q].pc \in {"done", "failed"}
  /\ ~runs[q].grace
  /\ polls[q].req = 0 /\ polls[q].timer = 0
  /\ esRef # q

\* a run that is started when the runs before it have wound down
StartAfter(r, kind) ==
  /\ \A q \in RunIds : q < r => Quiet(q)
  /\ Start(r, kind)

\* the runs of a page load follow one another; inputs about the final step only
NextRestart ==
  \/ \E r \in RunIds, kind \in {"pdf", "stored"} : StartAfter(r, kind)
  \/ \E r \in RunIds, ok \in BOOLEAN : UploadReturn(r, ok)
  \/ \E r \in RunIds, outcome \in {"jobId", "failed"} : InitReturn(r, outcome)
  \/ \E r \in RunIds : EsOpen(r)
  \/ \E r \in RunIds : GraceTimer(r)
  \/ \E r \in RunIds, ok \in BOOLEAN : StartReturn(r, ok)
  \/ \E r \in RunIds : EsError(r)
  \/ \E r \in RunIds, p \in RunsPayloads : StreamMessage(r, p)
  \/ \E r \in RunIds, resp \in RunsPollResponses : PollResponse(r, resp)
  \/ \E r \in RunIds : PollTimer(r)
  \/ Cancel
  \/ \E ok \in BOOLEAN : DownloadEnd(ok)
  \/ Reload

SpecRestart == Init /\ [][NextRestart]_vars

\* only the stream does not open: every request succeeds, nobody cancels
NextFallback ==
  \/ \E kind \in {"pdf", "stored"} : Start(1, kind)
  \/ UploadReturn(1, TRUE)
  \/ InitReturn(1, "jobId")
  \/ GraceTimer(1)
  \/ StartReturn(1, TRUE)
  \/ EsError(1)
  \/ \E resp \in PollResponses : PollResponse(1, resp)
  \/ PollTimer(1)
  \/ \E ok \in BOOLEAN : DownloadEnd(ok)

\* a status request that is answered generate_pdf_report: completed
PollCompleted == \E resp \in PollResponses : PollDone(resp) /\ PollResponse(1, resp)

\* Requests settle and timers fire (weak fairness).  The status endpoint
\* answers completed from some point on: a loop that keeps asking gets that
\* answer (strong fairness, the loop's request is in flight again and again).
SpecFallback ==
  /\ Init
  /\ [][NextFallback]_vars
  /\ WF_vars(UploadReturn(1, TRUE))
  /\ WF_vars(InitReturn(1, "jobId"))
  /\ WF_vars(GraceTimer(1))
  /\ WF_vars(StartReturn(1, TRUE))
  /\ WF_vars(PollTimer(1))
  /\ SF_vars(PollCompleted)

(* ------------------------- the automatic download ---------------------- *)

\* tries, as the effect of each copy passes it to waitUntilReachable
FrontendTries == 14
RootTries == 30
ProbeTries(v) == IF v = "root" THEN RootTries ELSE FrontendTries

\* report URLs that the backend names: the report of a job, and one more
ReportUrls == {"/static/report.pdf", "/static/report-2.pdf"}

\* stream messages about the report: a report URL with or without the
\* completion of the final step, and a step that failed
DownloadPayloads ==
  [data : {"json"}, type : {""}, failed_at : {NoFn}, function : {NoFn},
   status : {""}, reportUrl : ReportUrls]
  \cup
  [data : {"json"}, type : {""}, failed_at : {NoFn}, function : {FINAL_FN},
   status : {"completed"}, reportUrl : ReportUrls]
  \cup
  [data : {"json"}, type : {""}, failed_at : {NoFn}, function : {FINAL_FN},
   status : {"error"}, reportUrl : {""}]

\* poll responses about the report
DownloadPollResponses ==
  { [ok |-> TRUE, reportUrl |-> u,
     steps |-> ("scrape_jobs_from_google_jobs" :> "" @@ FINAL_FN :> b)] :
       u \in ReportUrls, b \in {"in_progress", "completed"} }

\* answers to a probe: OK, 405 or 501, another status, no answer at all
ProbeOutcomes == {"ok", "405", "other", "throws"}

\* (variation) the loop of waitUntilReachable with one round too many
AfterSleepOneMore(a, tries) ==
  IF a.i + 1 <= tries THEN [a EXCEPT !.i = @ + 1, !.pc = "head"]
  ELSE [a EXCEPT !.i = @ + 1, !.pc = "false"]

\* waitUntilReachable after the sleep of round i: the next round's HEAD
\* request while i + 1 < tries, else it returns false
AfterSleep(a, tries) ==
  IF a.i + 1 < tries THEN [a EXCEPT !.i = @ + 1, !.pc = "head"]
  ELSE [a EXCEPT !.i = @ + 1, !.pc = "false"]

\* the other variables of the hook, which an attempt never touches
attemptFrame ==
  UNCHANGED << libVars, variant, steps, isProcessing, isComplete, reportUrl, jobId,
               parsedRows, esRef, openedRef, cancelledRef, runs, polls, cancelReqs >>

\* the catch block of the effect: the k-th attempt is over, the flag is reset
AttemptFails(k) ==
  /\ attempts' = RemoveAt(attempts, k)
  /\ downloads' = downloads - 1
  /\ downloadStartedRef' = FALSE
  /\ history' = Ended(history, k, FALSE)

\* the k-th attempt goes on as a
AttemptGoes(k, a) ==
  /\ attempts' = [attempts EXCEPT ![k] = a]
  /\ UNCHANGED << downloads, downloadStartedRef, history >>

\* the HEAD request of a round settles: OK ends waitUntilReachable with
\* true and the download request is sent; 405 and 501 send the GET request
ProbeHead(k, outcome) ==
  /\ k \in DOMAIN attempts /\ attempts[k].pc = "head"
  /\ AttemptGoes(k, [attempts[k] EXCEPT !.pc = CASE outcome = "ok"  -> "download"
                                                 [] outcome = "405" -> "get"
                                                 [] OTHER           -> "sleep"])
  /\ attemptFrame

\* the GET request of a round settles
ProbeGet(k, outcome) ==
  /\ k \in DOMAIN attempts /\ attempts[k].pc = "get"
  /\ AttemptGoes(k, [attempts[k] EXCEPT !.pc = IF outcome = "ok" THEN "download"
                                               ELSE "sleep"])
  /\ attemptFrame

\* the sleep of a round ends
ProbeSleep(k) ==
  /\ k \in DOMAIN attempts /\ attempts[k].pc = "sleep"
  /\ LET a == AfterSleep(attempts[k], ProbeTries(variant))
     IN  IF a.pc = "false" THEN AttemptFails(k) ELSE AttemptGoes(k, a)
  /\ attemptFrame

\* the request of downloadUrlAsFile settles: the file is saved, or the catch
\* block runs
DownloadReturn(k, ok) ==
  /\ k \in DOMAIN attempts /\ attempts[k].pc = "download"
  /\ IF ok
     THEN /\ attempts' = RemoveAt(attempts, k)
          /\ downloads' = downloads - 1
          /\ history' = Ended(history, k, TRUE)
          /\ UNCHANGED downloadStartedRef
     ELSE AttemptFails(k)
  /\ attemptFrame

AttemptIds == 1..(MaxRuns + 2)

\* one run per page load, every request of the run succeeds; the probes and
\* the download request one by one
NextDownload ==
  \/ \E kind \in {"pdf", "stored"} : Start(1, kind)
  \/ UploadReturn(1, TRUE)
  \/ InitReturn(1, "jobId")
  \/ EsOpen(1)
  \/ GraceTimer(1)
  \/ StartReturn(1, TRUE)
  \/ \E p \in DownloadPayloads : StreamMessage(1, p)
  \/ \E resp \in DownloadPollResponses : PollResponse(1, resp)
  \/ PollTimer(1)
  \/ Cancel
  \/ \E k \in AttemptIds, outcome \in ProbeOutcomes : ProbeHead(k, outcome)
  \/ \E k \in AttemptIds, outcome \in ProbeOutcomes \ {"405"} : ProbeGet(k, outcome)
  \/ \E k \in AttemptIds : ProbeSleep(k)
  \/ \E k \in AttemptIds, ok \in BOOLEAN : DownloadReturn(k, ok)
  \/ Reload

SpecDownload == Init /\ [][NextDownload]_vars

\* the runs of a page load follow one another while the attempts of earlier
\* runs go on; each attempt ends in one step; the history of the attempts
\* is kept
NextDownloadRuns ==
  \/ \E r \in RunIds : StartAfter(r, "stored")
  \/ \E r \in RunIds : InitReturn(r, "jobId")
  \/ \E r \in RunIds : EsOpen(r)
  \/ \E r \in RunIds : GraceTimer(r)
  \/ \E r \in RunIds : StartReturn(r, TRUE)
  \/ \E r \in RunIds, p \in DownloadPayloads : StreamMessage(r, p)
  \/ \E r \in RunIds, resp \in DownloadPollResponses : PollResponse(r, resp)
  \/ \E r \in RunIds : PollTimer(r)
  \/ Cancel
  \/ \E ok \in BOOLEAN : DownloadEnd(ok)
  \/ Reload

SpecDownloadRuns == InitHistory /\ [][NextDownloadRuns]_vars

(* -------------------------- useVersionWatcher -------------------------- *)

\* cap of the backoff
MaxDelayMs == 120000

\* delay of the check that a focus event schedules
FocusDebounceMs == 50

Min(a, b) == IF a < b THEN a ELSE b

\* schedule(delay): clearTimer, remember the delay, set the timer
schedule(w, delay) ==
  [w EXCEPT !.timerRef = TRUE, !.timerDelay = delay, !.nextDelayRef = delay]

\* (variation) the backoff without its cap
BackoffUncapped(w) == w.nextDelayRef * 2

\* the delay after a non-OK response, a network error or an abort
Backoff(w) == Min(w.nextDelayRef * 2, MaxDelayMs)

\* setIfAdvanced
setIfAdvanced(w, incomingIso) ==
  IF parseIsoMs(incomingIso) > parseIsoMs(w.lastChangedRef)
  THEN [w EXCEPT !.lastChangedRef = incomingIso, !.lastChanged = incomingIso]
  ELSE w

\* inFlight.current?.abort(): the request that is under way rejects, and its
\* catch block schedules the next check with the backoff
abortInFlight(w) ==
  IF w.inFlight = "none" THEN w
  ELSE schedule([w EXCEPT !.inFlight = "none"], Backoff(w))

\* (variation) tick without its test of cancelled
tickIgnoresCancelled(w) ==
  IF w.hidden THEN schedule(w, w.nextDelayRef)
  ELSE LET sent == [w EXCEPT !.inFlight = "fetch",
                             !.conditional = (w.etagRef # NoEtag)]
       IN  IF w.inFlight = "none" THEN sent
           ELSE schedule(sent, Backoff(w))

\* tick up to its await: nothing once cancelled; no request while the tab is
\* hidden; otherwise the request under way is aborted and a new one is sent,
\* conditional when an ETag is known
tick(w) ==
  IF w.cancelled THEN w
  ELSE IF w.hidden THEN schedule(w, w.nextDelayRef)
  ELSE LET sent == [w EXCEPT !.inFlight = "fetch",
                             !.conditional = (w.etagRef # NoEtag)]
       IN  IF w.inFlight = "none" THEN sent
           ELSE schedule(sent, Backoff(w))

\* the component mounts: state and refs are seeded from the cache, the
\* effect runs and calls tick
WatcherMount(p, initial, hid) ==
  /\ watcher.phase = "unmounted"
  /\ watcher' = tick([UnmountedWatcher EXCEPT
                        !.phase = "mounted", !.pollMs = p, !.nextDelayRef = p,
                        !.lastChanged = initial, !.lastChangedRef = initial,
                        !.hidden = hid])
  /\ UNCHANGED << hookVars, cacheVars >>

\* the timer fires
WatcherTimer ==
  /\ watcher.timerRef
  /\ watcher' = tick([watcher EXCEPT !.timerRef = FALSE])
  /\ UNCHANGED << hookVars, cacheVars >>

\* the version endpoint answers 304 to a conditional request
Version304 ==
  /\ watcher.inFlight = "fetch" /\ watcher.conditional
  /\ watcher' = schedule([watcher EXCEPT !.inFlight = "none"], watcher.pollMs)
  /\ UNCHANGED << hookVars, cacheVars >>

\* the version endpoint answers 200: the ETag is kept, the body is awaited
VersionOk(etag) ==
  /\ watcher.inFlight = "fetch"
  /\ watcher' = [watcher EXCEPT !.etagRef = etag, !.inFlight = "json"]
  /\ UNCHANGED << hookVars, cacheVars >>

\* the body of a 200 answer has been read
VersionBody(incoming) ==
  /\ watcher.inFlight = "json"
  /\ watcher' =
       schedule(IF ~watcher.cancelled /\ incoming # ""
                THEN setIfAdvanced([watcher EXCEPT !.inFlight = "none"], incoming)
                ELSE [watcher EXCEPT !.inFlight = "none"],
                watcher.pollMs)
  /\ UNCHANGED << hookVars, cacheVars >>

\* the version endpoint answers with a status that is neither 304 nor OK
VersionNotOk ==
  /\ watcher.inFlight = "fetch"
  /\ watcher' = schedule([watcher EXCEPT !.inFlight = "none"], Backoff(watcher))
  /\ UNCHANGED << hookVars, cacheVars >>

\* the request fails, or the body cannot be read
VersionFails ==
  /\ watcher.inFlight \in {"fetch", "json"}
  /\ watcher' = schedule([watcher EXCEPT !.inFlight = "none"], Backoff(watcher))
  /\ UNCHANGED << hookVars, cacheVars >>

\* the body of a 200 answer is not JSON: res.json() rejects, the catch block
\* backs off
VersionBodyInvalid ==
  /\ watcher.inFlight = "json"
  /\ watcher' = schedule([watcher EXCEPT !.inFlight = "none"], Backoff(watcher))
  /\ UNCHANGED << hookVars, cacheVars >>

\* onFocus: a check after the debounce, unless the tab is hidden
onFocus(w) ==
  IF w.hidden THEN w
  ELSE [w EXCEPT !.timerRef = TRUE, !.timerDelay = FocusDebounceMs]

\* the window gets the focus
WatcherFocus ==
  /\ watcher.phase = "mounted"
  /\ watcher' = onFocus(watcher)
  /\ UNCHANGED << hookVars, cacheVars >>

\* the tab is hidden or shown again
WatcherVisibility ==
  /\ watcher.phase = "mounted"
  /\ watcher' = onFocus([watcher EXCEPT !.hidden = ~watcher.hidden])
  /\ UNCHANGED << hookVars, cacheVars >>

\* the effect's cleanup.  late: the abort comes when the answer of the
\* request under way is already being delivered, and that request settles
\* as if it had not been aborted
WatcherUnmount(late) ==
  /\ watcher.phase = "mounted"
  /\ late => watcher.inFlight # "none"
  /\ LET w == [watcher EXCEPT !.phase = "cleaned", !.cancelled = TRUE, !.timerRef = FALSE]
     IN  watcher' = IF late THEN w ELSE abortInFlight(w)
  /\ UNCHANGED << hookVars, cacheVars >>

NextWatcher ==
  \/ \E p \in PollMsValues, initial \in IsoValues \cup {NoIso}, hid \in BOOLEAN :
       WatcherMount(p, initial, hid)
  \/ WatcherTimer
  \/ Version304
  \/ \E etag \in EtagValues : VersionOk(etag)
  \/ \E incoming \in BodyValues : VersionBody(incoming)
  \/ VersionNotOk
  \/ VersionFails
  \/ VersionBodyInvalid
  \/ WatcherFocus
  \/ WatcherVisibility
  \/ \E late \in BOOLEAN : WatcherUnmount(late)

SpecWatcher == Init /\ [][NextWatcher]_vars

(* ------------------------- getWithVersionCache ------------------------- *)

\* return { data: cached.data, lastChanged: cached.lastChanged }
ReturnCached(c, how) ==
  [c EXCEPT !.pc = "returned", !.served = how, !.data = c.cached.data,
            !.retLastChanged = c.cached.lastChanged]

\* the catch block, entered at time t: the entry read at the start is served
\* when stale data is allowed and the entry is at most ttlMs old; otherwise
\* dataUrl is requested directly unless the signal is aborted
GvCatch(c, t) ==
  IF c.cached.present /\ c.allowStale # "false" /\ t - c.cached.cachedAt <= c.ttlMs
  THEN ReturnCached(c, "stale")
  ELSE IF ~c.aborted
       THEN [c EXCEPT !.pc = "retry", !.dataReqs = @ + 1]
       ELSE [c EXCEPT !.pc = "thrown"]

\* getWithVersionCache is called: the entry is read, the version request is
\* sent, conditional when the entry has an ETag
GvCall(allowStale, ttlMs) ==
  /\ cacheCall.pc \in {"idle", "returned", "thrown"}
  /\ cacheCall' = [NoCall EXCEPT
                     !.pc = "version", !.cached = localStorage,
                     !.allowStale = allowStale, !.ttlMs = ttlMs,
                     !.conditional = (localStorage.present /\ localStorage.etag # NoEtag)]
  /\ UNCHANGED << hookVars, watcher, tabs, localStorage, now >>

\* the version endpoint answers 304 to a conditional request
GvVersion304 ==
  /\ cacheCall.pc = "version" /\ cacheCall.conditional
  /\ cacheCall' = IF cacheCall.cached.present
                  THEN ReturnCached([cacheCall EXCEPT !.version = "304"], "cache")
                  ELSE GvCatch([cacheCall EXCEPT !.version = "failed"], now)
  /\ UNCHANGED << hookVars, watcher, tabs, localStorage, now >>

\* the version request fails: network error or non-OK status
GvVersionFails ==
  /\ cacheCall.pc = "version"
  /\ cacheCall' = GvCatch([cacheCall EXCEPT !.version = "failed"], now)
  /\ UNCHANGED << hookVars, watcher, tabs, localStorage, now >>

\* the version endpoint answers 200; its body is awaited
GvVersionOk(etag) ==
  /\ cacheCall.pc = "version"
  /\ cacheCall' = [cacheCall EXCEPT !.pc = "json", !.vEtag = etag]
  /\ UNCHANGED << hookVars, watcher, tabs, localStorage, now >>

\* the version body cannot be read
GvVersionBodyFails ==
  /\ cacheCall.pc = "json"
  /\ cacheCall' = GvCatch([cacheCall EXCEPT !.version = "failed"], now)
  /\ UNCHANGED << hookVars, watcher, tabs, localStorage, now >>

\* (variation) an entry is served whatever the version says
GvVersionBodyAnyVersion(lastChanged) ==
  /\ cacheCall.pc = "json"
  /\ LET c == [cacheCall EXCEPT !.version = "200", !.lastChanged = lastChanged]
     IN  cacheCall' = IF c.cached.present
                      THEN ReturnCached(c, "cache")
                      ELSE [c EXCEPT !.pc = "data", !.dataReqs = @ + 1]
  /\ UNCHANGED << hookVars, watcher, tabs, localStorage, now >>

\* the version body is read: the entry is served when its lastChanged is
\* the same string, otherwise dataUrl is requested
GvVersionBody(lastChanged) ==
  /\ cacheCall.pc = "json"
  /\ LET c == [cacheCall EXCEPT !.version = "200", !.lastChanged = lastChanged]
     IN  cacheCall' = IF c.cached.present /\ c.cached.lastChanged = lastChanged
                      THEN ReturnCached(c, "cache")
                      ELSE [c EXCEPT !.pc = "data", !.dataReqs = @ + 1]
  /\ UNCHANGED << hookVars, watcher, tabs, localStorage, now >>

\* dataUrl answers: the entry is written and the fresh data returned
GvData(data) ==
  /\ cacheCall.pc = "data"
  /\ localStorage' = Entry(data, cacheCall.lastChanged, now, cacheCall.vEtag)
  /\ cacheCall' = [cacheCall EXCEPT !.pc = "returned", !.served = "fresh",
                                    !.writes = @ + 1, !.data = data,
                                    !.retLastChanged = cacheCall.lastChanged]
  /\ UNCHANGED << hookVars, watcher, tabs, now >>

\* the request of dataUrl fails: the same catch block
GvDataFails ==
  /\ cacheCall.pc = "data"
  /\ cacheCall' = GvCatch(cacheCall, now)
  /\ UNCHANGED << hookVars, watcher, tabs, localStorage, now >>

\* lastChanged of the entry written by the catch block
RetryLastChanged(c, t) == IF c.cached.present THEN c.cached.lastChanged ELSE NowIso(t)

\* the direct request of the catch block answers
GvRetryData(data) ==
  /\ cacheCall.pc = "retry"
  /\ localStorage' = Entry(data, RetryLastChanged(cacheCall, now), now,
                           cacheCall.cached.etag)
  /\ cacheCall' = [cacheCall EXCEPT !.pc = "returned", !.served = "direct",
                                    !.writes = @ + 1, !.data = data,
                                    !.retLastChanged = RetryLastChanged(cacheCall, now)]
  /\ UNCHANGED << hookVars, watcher, tabs, now >>

\* the direct request of the catch block fails: the call throws
GvRetryFails ==
  /\ cacheCall.pc = "retry"
  /\ cacheCall' = [cacheCall EXCEPT !.pc = "thrown"]
  /\ UNCHANGED << hookVars, watcher, tabs, localStorage, now >>

\* the caller aborts the signal: the request under way rejects
GvAbort ==
  /\ cacheCall.pc \in {"version", "json", "data", "retry"}
  /\ cacheCall' =
       IF cacheCall.pc = "retry"
       THEN [cacheCall EXCEPT !.pc = "thrown", !.aborted = TRUE]
       ELSE GvCatch([cacheCall EXCEPT
                       !.aborted = TRUE,
                       !.version = IF cacheCall.pc = "data" THEN @ ELSE "failed"], now)
  /\ UNCHANGED << hookVars, watcher, tabs, localStorage, now >>

\* broadcastInvalidate(key): every other open tab gets one more message
broadcastInvalidate(pending) == [t \in DOMAIN pending |-> pending[t] + 1]

\* clearCache(key): the entry is removed, the other tabs are told
ClearCache ==
  /\ localStorage.present
  /\ \A t \in DOMAIN tabs.pending : tabs.pending[t] < MaxPending
  /\ localStorage' = NoEntry
  /\ tabs' = [pending |-> broadcastInvalidate(tabs.pending), written |-> NoEntry]
  /\ UNCHANGED << hookVars, watcher, now, cacheCall >>

\* time passes
ClockTick ==
  /\ now < MaxClock
  /\ now' = now + 1
  /\ UNCHANGED << hookVars, watcher, tabs, localStorage, cacheCall >>

NextCache ==
  \/ \E allowStale \in AllowStaleValues, ttlMs \in TtlValues : GvCall(allowStale, ttlMs)
  \/ GvVersion304
  \/ GvVersionFails
  \/ \E etag \in EtagValues : GvVersionOk(etag)
  \/ GvVersionBodyFails
  \/ \E lastChanged \in CacheVersions : GvVersionBody(lastChanged)
  \/ \E data \in DataValues : GvData(data)
  \/ GvDataFails
  \/ \E data \in DataValues : GvRetryData(data)
  \/ GvRetryFails
  \/ GvAbort
  \/ ClearCache
  \/ ClockTick

SpecCache == Init /\ [][NextCache]_vars

(* ------------------------------ several tabs --------------------------- *)

OtherTabs == 1..MaxTabs

\* etag argument of setCache
SetEtags == {NoEtag, "v1"}

\* another tab of the same origin is opened; it loads dataCache.ts and
\* listens on the channel
OpenTab(t) ==
  /\ t \notin DOMAIN tabs.pending
  /\ tabs' = [tabs EXCEPT !.pending = (t :> 0) @@ @]
  /\ UNCHANGED << hookVars, watcher, localStorage, now, cacheCall >>

\* setCache(key, data, lastChanged, etag) in this tab: the entry is written,
\* then the other tabs are told
SetCache(data, lastChanged, etag) ==
  /\ \A t \in DOMAIN tabs.pending : tabs.pending[t] < MaxPending
  /\ localStorage' = Entry(data, lastChanged, now, etag)
  /\ tabs' = [pending |-> broadcastInvalidate(tabs.pending),
              written |-> Entry(data, lastChanged, now, etag)]
  /\ UNCHANGED << hookVars, watcher, now, cacheCall >>

\* the message listener of tab t gets an invalidate message for the key:
\* localStorage.removeItem(key), on the storage that all tabs share
BcMessage(t) ==
  /\ t \in DOMAIN tabs.pending /\ tabs.pending[t] > 0
  /\ localStorage' = NoEntry
  /\ tabs' = [tabs EXCEPT !.pending[t] = @ - 1]
  /\ UNCHANGED << hookVars, watcher, now, cacheCall >>

NextTabs ==
  \/ \E t \in OtherTabs : OpenTab(t)
  \/ \E data \in DataValues, lastChanged \in CacheVersions, etag \in SetEtags :
       SetCache(data, lastChanged, etag)
  \/ \E t \in OtherTabs : BcMessage(t)
  \/ ClearCache
  \/ ClockTick

SpecTabs == Init /\ [][NextTabs]_vars

(* ------------------------------ properties ----------------------------- *)

TypeOK ==
  /\ variant \in Variants
  /\ \A i \in StepIdx : steps[i].status \in StepStatus
  /\ isProcessing \in BOOLEAN /\ isComplete \in BOOLEAN
  /\ jobId \in RunIds \cup {NoJob} /\ esRef \in RunIds \cup {NoJob}

AllPending(st) == \A i \in StepIdx : st[i].status = "pending"

SameKeys(st) ==
  /\ DOMAIN st = DOMAIN INITIAL_STEPS
  /\ \A i \in StepIdx : /\ st[i].id = INITIAL_STEPS[i].id
                        /\ st[i].name = INITIAL_STEPS[i].name
                        /\ st[i].fn = INITIAL_STEPS[i].fn

\* the fixed status table of the specification
FixedTable(st) ==
  CASE st = "started"   -> "in-progress"
    [] st = "completed" -> "completed"
    [] st = "error"     -> "error"

ValidEvents ==
  { p \in Payloads : /\ p.data = "json" /\ p.type = ""
                     /\ p.function \in StepFns
                     /\ p.status \in {"started", "completed", "error"} }

\* C1: every valid (function, status) message of the stream gives the step
\* whose fn is the function the status of the fixed table and leaves the
\* status of every other step as it was; so after any sequence of such
\* messages each step has the status of the last message for its fn, and a
\* step without a message its previous status.
C1_LastEventWins ==
  [][\A r \in RunIds, p \in ValidEvents :
       StreamMessage(r, p) =>
         \A i \in StepIdx :
           steps'[i].status = IF steps[i].fn = p.function
                              THEN FixedTable(p.status)
                              ELSE steps[i].status]_vars

\* startFromStored, then started and completed for step 1 over the stream,
\* and no poll response or cancel so far
C1_Witness ==
  /\ runs[1].kind = "stored" /\ runs[1].pc = "start"
  /\ esRef = 1 /\ openedRef /\ ~cancelledRef /\ ~isComplete
  /\ polls[1].req = 0 /\ polls[1].timer = 0
  /\ steps[1].status = "completed"
  /\ \A i \in StepIdx \ {1} : steps[i].status = "pending"

\* a step in which a channel applies the completion of generate_pdf_report
CompletionByStream ==
  \E r \in RunIds, p \in Payloads : StreamCompletes(p) /\ StreamMessage(r, p)

CompletionByPoll ==
  \E r \in RunIds, resp \in PollResponses : PollDone(resp) /\ PollResponse(r, resp)

\* C2: a channel that receives generate_pdf_report: completed sets isComplete
\* and clears isProcessing, and it does so only if no channel has applied the
\* completion in this run before (isComplete is not yet set).
C2_CompletionAppliedOnce ==
  [][(CompletionByStream \/ CompletionByPoll) =>
       (~isComplete /\ isComplete' /\ ~isProcessing')]_vars

\* C3: the synchronous part of cancel() leaves every step pending,
\* isProcessing false, the stream handle null and the cancelled flag set,
\* whatever is in flight.
C3_CancelResets ==
  [][Cancel =>
       /\ AllPending(steps') /\ SameKeys(steps')
       /\ ~isProcessing'
       /\ esRef' = NoJob
       /\ cancelledRef']_vars

\* a second run, cancelled like the first, with its status request in flight
C3_Witness ==
  /\ cancelledRef /\ ~isProcessing /\ esRef = NoJob /\ AllPending(steps)
  /\ runs[2].pc = "done" /\ polls[2].req > 0 /\ cancelReqs = {1, 2}

\* C4: from cancel() to the next start no event stream is open, no message
\* or poll response changes steps, isProcessing, isComplete or reportUrl,
\* and no poll timer is set.
C4_CancelSilences ==
  [][(cancelledRef /\ cancelledRef') =>
       /\ esRef' = NoJob
       /\ UNCHANGED << steps, isProcessing, isComplete, reportUrl >>
       /\ \A r \in RunIds : polls'[r].timer <= polls[r].timer]_vars

\* C6: an explicit error event sets the status of the step it names
\* (failed_at, else function) to error and changes nothing else in steps;
\* if it names no step, steps is unchanged.
C6_ErrorEventFrame ==
  [][\A r \in RunIds, p \in ErrorPayloads :
       StreamMessage(r, p) =>
         /\ SameKeys(steps')
         /\ \A i \in StepIdx :
              steps'[i].status =
                IF steps[i].fn = (IF p.failed_at # NoFn THEN p.failed_at ELSE p.function)
                THEN "error"
                ELSE steps[i].status]_vars

\* an error event was handled (stream closed in a run that is neither
\* cancelled, failed nor complete); step 7 is in error beside a completed
\* step 1
C6_Witness ==
  /\ runs[1].pc = "done" /\ esRef = NoJob /\ ~cancelledRef /\ ~isComplete
  /\ ~isProcessing
  /\ steps[7].status = "error" /\ steps[1].status = "completed"

\* C7: startFromPdf / startFromStored first resets the view: all steps
\* pending, isProcessing, not isComplete, no reportUrl, both flags cleared,
\* and only then issues the first request of the run.
C7_StartResets ==
  [][\A r \in RunIds, kind \in {"pdf", "stored"} :
       Start(r, kind) =>
         /\ AllPending(steps') /\ SameKeys(steps')
         /\ isProcessing' /\ ~isComplete'
         /\ reportUrl' = NoUrl
         /\ ~cancelledRef' /\ ~downloadStartedRef'
         /\ Len(runs'[r].log) = 1]_vars

\* a second run has just started after a cancelled one whose report URL had
\* arrived and whose download is still going on
C7_Witness ==
  /\ runs[2].pc \in {"init", "upload"} /\ Len(runs[2].log) = 1
  /\ cancelReqs # {} /\ ~cancelledRef /\ ~downloadStartedRef /\ downloads = 1
  /\ AllPending(steps) /\ isProcessing /\ ~isComplete /\ reportUrl = NoUrl

\* C8: in a run of startFromPdf the upload is the first request, and a run
\* whose upload failed has made no other request and is not processing.
C8_UploadFirst ==
  \A r \in RunIds :
    (runs[r].kind = "pdf" /\ runs[r].log # << >>) =>
      /\ runs[r].log[1] = "upload"
      /\ runs[r].failedAt = "upload" => (runs[r].log = << "upload" >> /\ ~isProcessing)

\* C9: a run whose upload, init or start-pipeline call failed ends with
\* isProcessing false and without an event stream, its last request is the
\* failed one, and it takes no further step (no start-pipeline, no
\* pollStatus call).
C9_FailureIsFatal ==
  [][\A r \in RunIds :
       /\ (runs[r].pc # "failed" /\ runs'[r].pc = "failed") =>
            /\ ~isProcessing'
            /\ esRef' = NoJob
            /\ runs'[r].failedAt \in {"upload", "init", "start"}
            /\ runs'[r].log[Len(runs'[r].log)] = runs'[r].failedAt
       /\ runs[r].pc = "failed" =>
            \/ runs'[r] = runs[r]
            \/ runs'[r].pc = "idle"]_vars

\* the start-pipeline call failed after the stream had opened; no poll loop
C9_Witness ==
  /\ runs[1].pc = "failed" /\ runs[1].failedAt = "start"
  /\ ~isProcessing /\ esRef = NoJob
  /\ polls[1].req = 0 /\ polls[1].timer = 0
  /\ steps[1].status = "in-progress"

\* C10: a failed status request only sets the next timer, and once the run
\* is cancelled or complete no further status request is issued.
C10_PollStops ==
  [][\A r \in RunIds :
       /\ PollResponse(r, CHOOSE resp \in PollResponses : ~resp.ok) =>
            (polls'[r].timer = polls[r].timer + 1 /\ polls'[r].req = polls[r].req - 1)
       /\ (cancelledRef \/ isComplete) => polls'[r].req <= polls[r].req]_vars

\* C5: when the stream never opens, every request succeeds and nobody
\* cancels, a started run gets past the grace period and the poll loop
\* completes it: isComplete, not isProcessing, step 7 completed.
C5_FallbackCompletes ==
  (runs[1].pc # "idle") ~>
     (/\ runs[1].pc = "done"
      /\ isComplete /\ ~isProcessing
      /\ steps[7].status = "completed")

\* completed by the poll loop with the stream still unopened
C5_Witness ==
  /\ runs[1].pc = "done" /\ esRef = 1 /\ ~openedRef
  /\ isComplete /\ ~isProcessing /\ steps[7].status = "completed"

\* C11: the start-pipeline request of a run carries the source tag of the
\* function that started it ("pdf" for startFromPdf, "stored" for
\* startFromStored) and the flags scrapeEnabled, extractEnabled, generatePdf
\* true and retrainModels false.
C11_SourceTag ==
  \A r \in RunIds : \A req \in runs[r].startReq :
    /\ req.source = runs[r].kind
    /\ req.scrapeEnabled /\ req.extractEnabled /\ req.generatePdf
    /\ ~req.retrainModels

\* a timestamp strictly later than cur, the current value of lastChanged
LaterThan(new, cur) ==
  /\ ~DateGetTime(new).nan
  /\ cur # NoIso /\ ~DateGetTime(cur).nan => DateGetTime(new).t > DateGetTime(cur).t

\* C12: whatever the version endpoint answers, the lastChanged that
\* useVersionWatcher returns only changes to a timestamp strictly later than
\* its current value; an equal, earlier or unparsable lastChanged and a 304
\* leave it as it is.
C12_OnlyAdvances ==
  [][watcher.phase # "unmounted" /\ watcher'.lastChanged # watcher.lastChanged
       => LaterThan(watcher'.lastChanged, watcher.lastChanged)]_vars

\* the version endpoint confirmed the entry read at the start of the call:
\* a 304, or a 200 whose lastChanged is the entry's
VersionConfirms(c) ==
  /\ c.cached.present
  /\ \/ c.version = "304"
     \/ c.version = "200" /\ c.cached.lastChanged = c.lastChanged

C14_StaleOnlyOnVersionError ==
  [][(/\ cacheCall.pc # "returned" /\ cacheCall'.pc = "returned"
      /\ cacheCall'.served \in {"cache", "stale"}
      /\ ~VersionConfirms(cacheCall'))
       => /\ cacheCall'.version = "failed"
          /\ cacheCall'.allowStale # "false"
          /\ now - cacheCall'.cached.cachedAt <= cacheCall'.ttlMs]_vars

\* C15: handling a stream message {type:"error"} leaves isProcessing false
\* and the stream closed, leaves isComplete and reportUrl as they were, and
\* starts a status request for the run's job id unless the run was cancelled.
C15_ErrorEventStopsAndPolls ==
  [][\A r \in RunIds, p \in ErrorPayloads :
       StreamMessage(r, p)
         => /\ ~isProcessing' /\ esRef' = NoJob /\ ~openedRef'
            /\ isComplete' = isComplete /\ reportUrl' = reportUrl
            /\ ~cancelledRef => polls'[r] = [polls[r] EXCEPT !.req = @ + 1]
            /\ cancelledRef => polls' = polls
            /\ \A q \in RunIds \ {r} : polls'[q] = polls[q]]_vars

\* an error event named the first step before start-pipeline had answered
C15_Witness ==
  /\ ~isProcessing /\ ~isComplete /\ ~cancelledRef /\ esRef = NoJob /\ jobId = 1
  /\ runs[1].pc = "start" /\ polls[1].req = 1
  /\ steps[1].status = "error" /\ \A i \in StepIdx \ {1} : steps[i].status = "pending"

\* C16: a stream-level error (es.onerror) changes none of steps,
\* isProcessing, isComplete and reportUrl, and starts a status request for
\* the run's job id if and only if the run has not been cancelled.
C16_StreamErrorNonFatal ==
  [][\A r \in RunIds :
       EsError(r)
         => /\ UNCHANGED << steps, isProcessing, isComplete, reportUrl >>
            /\ (polls'[r].req = polls[r].req + 1) <=> ~cancelledRef
            /\ cancelledRef => polls' = polls
            /\ \A q \in RunIds \ {r} : polls'[q] = polls[q]]_vars

\* the stream errored before start-pipeline answered: the run is still
\* processing, the stream is still there and a status request is under way
C16_Witness ==
  /\ isProcessing /\ ~cancelledRef /\ esRef = 1 /\ openedRef
  /\ runs[1].pc = "start" /\ polls[1].req = 1 /\ polls[1].timer = 0

\* the status values a poll response is expected to carry
RecognisedPoll == {"pending", "in_progress", "completed", "error"}

\* the step status each of them stands for
PollTable(raw) ==
  CASE raw = "pending"     -> "pending"
    [] raw = "in_progress" -> "in-progress"
    [] raw = "completed"   -> "completed"
    [] raw = "error"       -> "error"

\* C17: a poll response that reports for a step a status outside pending,
\* in_progress, completed, error leaves that step's status as it was (it is
\* not reset to pending), and updates the other steps as usual.
C17_UnknownPollStatusKeeps ==
  [][\A r \in RunIds, resp \in PollResponses :
       (PollResponse(r, resp) /\ resp.ok)
         => \A i \in StepIdx :
              LET raw == RawOf(resp.steps, steps[i].fn)
              IN  steps'[i].status = IF raw \in RecognisedPoll THEN PollTable(raw)
                                     ELSE steps[i].status]_vars

\* C18: step updates are last-writer-wins: in every reachable state, a poll
\* response would set each step it reports with a recognised status to that
\* status, and a valid stream message would set its step to the status of
\* the table, whatever the step shows; so a step shown as completed or error
\* can go back to in-progress or pending.
C18_LastWriterWins ==
  /\ \A resp \in PollResponses, i \in StepIdx :
       (resp.ok /\ RawOf(resp.steps, steps[i].fn) \in RecognisedPoll)
         => ApplyPoll(variant, steps, resp.steps)[i].status
              = PollTable(RawOf(resp.steps, steps[i].fn))
  /\ \A p \in ValidEvents, i \in StepIdx :
       steps[i].fn = p.function
         => ApplyStream(variant, steps, p.function, p.status)[i].status
              = (CASE p.status = "started"   -> "in-progress"
                   [] p.status = "completed" -> "completed"
                   [] p.status = "error"     -> "error")

\* the run was completed by generate_pdf_report: completed, and a later
\* update has put the final step back to in-progress
C18_Witness ==
  /\ isComplete /\ steps[7].status = "in-progress" /\ runs[1].pc = "done"

\* C19: in every reachable state, isComplete implies that the step of
\* generate_pdf_report is completed.
C19_CompleteImpliesFinalStep ==
  isComplete => \E i \in StepIdx : steps[i].fn = FINAL_FN /\ steps[i].status = "completed"

\* C20: steps always is the list of the 7 entries of INITIAL_STEPS, in
\* order, with their ids, names and fn keys; only the status differs, and
\* it is one of pending, in-progress, completed, error.
C20_StepsShape ==
  /\ DOMAIN steps = StepIdx
  /\ \A i \in StepIdx :
       /\ steps[i].id = INITIAL_STEPS[i].id
       /\ steps[i].name = INITIAL_STEPS[i].name
       /\ steps[i].fn = INITIAL_STEPS[i].fn
       /\ steps[i].status \in StepStatus

\* a step in which the k-th attempt gives up: no probe of its last round was
\* answered OK, or its download request failed
GivesUp(k) ==
  \/ ProbeSleep(k) /\ attempts[k].i + 1 >= ProbeTries(variant)
  \/ DownloadReturn(k, FALSE)

\* C21: an attempt of the automatic download is within the first `tries`
\* rounds of waitUntilReachable while it probes, a probe answered OK ends
\* the probing with the download request, and an attempt whose last round
\* got no OK or whose download request failed ends with the download flag
\* reset; with the flag reset, the next change of reportUrl to a URL starts
\* a new attempt for that URL.
C21_BoundedProbesThenRetry ==
  [][/\ \A k \in DOMAIN attempts' :
          attempts'[k].pc \in {"head", "get", "sleep"} => attempts'[k].i + 1 <= ProbeTries(variant)
     /\ \A k \in DOMAIN attempts :
          /\ GivesUp(k) => (~downloadStartedRef' /\ attempts' = RemoveAt(attempts, k))
          /\ (ProbeHead(k, "ok") \/ ProbeGet(k, "ok")) => attempts'[k].pc = "download"
     /\ (~downloadStartedRef /\ reportUrl' # reportUrl /\ reportUrl' # NoUrl)
          => (downloadStartedRef'
              /\ attempts' = Append(attempts, NewAttempt(reportUrl')))]_vars

\* an attempt has given up (the flag is reset although the run has its
\* report URL) and the run goes on
C21_Witness ==
  /\ reportUrl # NoUrl /\ ~downloadStartedRef /\ attempts = << >>
  /\ runs[1].pc = "done" /\ isProcessing /\ ~cancelledRef

\* the positions of call in the request log of a run
Positions(log, call) == { n \in DOMAIN log : log[n] = call }

\* run r waits in openEventStream and nothing is left that resolves it:
\* the grace timer has fired and the onopen of its own stream cannot fire
Blocked(r) ==
  /\ runs[r].pc = "grace"
  /\ ~runs[r].grace
  /\ ~(esRef = r /\ ~openedRef)

\* C22: in every run the event stream is subscribed after the init call has
\* returned, start-pipeline is sent at most once and after the stream was
\* subscribed, and no run is left waiting in openEventStream with nothing
\* that resolves it.
C22_RequestOrder ==
  \A r \in RunIds :
    /\ \A e \in Positions(runs[r].log, "events") :
         \E n \in Positions(runs[r].log, "init") : n < e
    /\ Cardinality(Positions(runs[r].log, "start")) <= 1
    /\ \A st \in Positions(runs[r].log, "start") :
         \E e \in Positions(runs[r].log, "events") : e < st
    /\ ~Blocked(r)

\* the timer is set to delay through schedule(delay)
ScheduledAfter(w, delay) == w.timerRef /\ w.timerDelay = delay /\ w.nextDelayRef = delay

\* a tick of the mounted watcher while the tab is hidden
HiddenTick == WatcherTimer /\ watcher.hidden /\ ~watcher.cancelled

\* the delay of schedule() stays between pollMs and the cap
DelayInRange ==
  (watcher'.phase # "unmounted" /\ watcher'.pollMs <= MaxDelayMs)
    => (watcher'.pollMs <= watcher'.nextDelayRef /\ watcher'.nextDelayRef <= MaxDelayMs)

\* C23: after a non-OK response or a network or abort error the next check
\* is scheduled after min(2 x the previous delay, 120000 ms); after any 200
\* or 304 response it is scheduled after pollMs; a tick while the tab is
\* hidden sends no request and reschedules with the delay unchanged; for
\* pollMs <= 120000 the delay lies between pollMs and 120000 ms.
C23_Backoff ==
  [][/\ (VersionNotOk \/ VersionFails)
          => ScheduledAfter(watcher', Min(2 * watcher.nextDelayRef, 120000))
     /\ (Version304 \/ VersionBodyInvalid \/ \E incoming \in BodyValues : VersionBody(incoming))
          => ScheduledAfter(watcher', watcher.pollMs)
     /\ HiddenTick
          => (watcher'.inFlight = watcher.inFlight
              /\ ScheduledAfter(watcher', watcher.nextDelayRef))
     /\ DelayInRange]_vars

\* C23 (amended): as C23, but of the 200 responses only those whose body
\* could be read as JSON reset the delay to pollMs; a 200 response with a
\* body that is not JSON backs off like an error.  The delay is the one
\* passed to schedule(); the 50 ms timer of a focus event is not counted.
C23_BackoffAmended ==
  [][/\ (VersionNotOk \/ VersionFails \/ VersionBodyInvalid)
          => ScheduledAfter(watcher', Min(2 * watcher.nextDelayRef, 120000))
     /\ (Version304 \/ \E incoming \in BodyValues : VersionBody(incoming))
          => ScheduledAfter(watcher', watcher.pollMs)
     /\ HiddenTick
          => (watcher'.inFlight = watcher.inFlight
              /\ ScheduledAfter(watcher', watcher.nextDelayRef))
     /\ DelayInRange]_vars

\* the backoff has reached its cap after three failures, and the tab has
\* been hidden since
C23_Witness ==
  /\ watcher.phase = "mounted" /\ watcher.pollMs = 20000
  /\ watcher.nextDelayRef = MaxDelayMs /\ watcher.timerRef /\ watcher.timerDelay = MaxDelayMs
  /\ watcher.hidden /\ watcher.inFlight = "none"

\* every other tab has processed every invalidate message sent so far
AllProcessed == \A t \in DOMAIN tabs.pending : tabs.pending[t] = 0

\* C24: with other tabs open, once they have processed the broadcast of a
\* setCache of this tab, the entry that setCache wrote is still stored under
\* the key (peekCache returns its data and lastChanged), until clearCache or
\* a later write.
C24_SetCacheSurvivesBroadcast ==
  (tabs.written.present /\ AllProcessed) => localStorage = tabs.written

\* poll loops alive in the hook: each is a status request in flight or a
\* pending 1000 ms timer
PollLoops(pl) ==
  LET Sum[n \in 0..MaxRuns] == IF n = 0 THEN 0 ELSE Sum[n - 1] + pl[n].req + pl[n].timer
  IN  Sum[MaxRuns]

\* C25: at any time at most one poll loop exists in the hook: at most one
\* pending poll timer or status request in flight.
C25_OnePollLoop == PollLoops(polls) <= 1

\* C26: once a new run has started, no status request is issued for the
\* job of an earlier run, and no poll response for the job of an earlier run
\* changes steps, isComplete, isProcessing or reportUrl.
C26_PollsScopedToRun ==
  [][\A r \in RunIds :
       r < CurrentRun(runs) =>
         /\ polls'[r].req <= polls[r].req
         /\ \A resp \in RunsPollResponses :
              PollResponse(r, resp)
                => UNCHANGED << steps, isComplete, isProcessing, reportUrl >>]_vars

\* C27: a run that was cancelled while it was starting (during the upload,
\* the init call or the grace period) afterwards neither opens an event
\* stream nor sends the start-pipeline request.
C27_CancelStopsStart ==
  [][\A r \in RunIds :
       (cancelledRef /\ runs[r].pc \in {"upload", "init", "grace"}) =>
         /\ Positions(runs'[r].log, "events") \subseteq Positions(runs[r].log, "events")
         /\ Positions(runs'[r].log, "start") \subseteq Positions(runs[r].log, "start")
         /\ esRef' # r]_vars

\* C28: in every reachable state isProcessing and isComplete are not both
\* true.
C28_NotProcessingAndComplete == ~(isProcessing /\ isComplete)

\* a second run was completed by a poll response while the stream of the
\* first, cancelled run was never closed by a completion
C28_Witness ==
  /\ isComplete /\ ~isProcessing /\ cancelReqs # {}
  /\ runs[2].pc = "done" /\ steps[7].status = "completed" /\ reportUrl # NoUrl

\* the attempts in progress that were started in run r
AttemptsOf(r) == { k \in DOMAIN history.runOf : history.runOf[k] = r }

\* C29: within one run the report is downloaded at most once: at most one
\* attempt started in the run is in progress at any time, the attempts of
\* a run save at most one file, and once one has saved the file no further
\* attempt is started in that run.
C29_DownloadOncePerRun ==
  [][\A r \in RunIds :
       /\ Cardinality(AttemptsOf(r)') <= 1
       /\ history'.saved[r] <= 1
       /\ history.saved[r] > 0 => AttemptsOf(r)' \subseteq AttemptsOf(r)]_vars

\* C30: once the cleanup of the effect has run, lastChanged is never
\* updated and no version request is started: a request that was under way
\* may still settle, a timer that fires does nothing, and no request
\* follows one that has settled.
C30_QuietAfterCleanup ==
  [][watcher.phase = "cleaned" =>
       /\ watcher'.lastChanged = watcher.lastChanged
       /\ watcher'.lastChangedRef = watcher.lastChangedRef
       /\ watcher.inFlight = "none" => watcher'.inFlight = "none"
       /\ WatcherTimer => watcher' = [watcher EXCEPT !.timerRef = FALSE]]_vars

\* the cleanup ran while a first request was under way; its answer, a 200
\* with an ETag, was handled afterwards and set the timer to pollMs, and
\* lastChanged still is what the cache had seeded
C30_Witness ==
  /\ watcher.phase = "cleaned" /\ watcher.cancelled /\ watcher.inFlight = "none"
  /\ watcher.etagRef = "v1" /\ watcher.timerRef /\ watcher.timerDelay = watcher.pollMs
  /\ watcher.lastChanged = NoIso

====
